---- MODULE Spec2Model ----
(***************************************************************************)
(* HashGrad analysis scripts.                                              *)
(*                                                                         *)
(*   Spec             scripts/visual_collision_analyzer.py, the Collision  *)
(*                    Harness: batch loop, analysis, summary.              *)
(*   SpecHamming      hamming_distance of that script, as a function.      *)
(*   SpecExtract      extract_parameter_seeds of                           *)
(*                    scripts/param_complementarity_analyzer.py, the Seed  *)
(*                    Extractor, as a function.                            *)
(*   SpecCorrelation  the main analysis of that script, the Correlation    *)
(*                    Harness.                                             *)
(*                                                                         *)
(* Each specification runs one program; the variables of the others keep   *)
(* their idle values.  pc, i and error belong to the program that runs.    *)
(*                                                                         *)
(* Python strings that the code indexes (perceptual-hash tokens) are       *)
(* sequences of one-character strings; input strings, which the code only  *)
(* stores and compares, are opaque strings.                                *)
(***************************************************************************)
EXTENDS Integers, Sequences, FiniteSets, Bags, TLC

(***************************************************************************)
(* Bounds of the model.                                                    *)
(***************************************************************************)
\* --num_samples is drawn from 0..MaxSmallSamples and the smallest count for
\* which num_samples // 20 is not 0.
MaxSmallSamples == 2
\* At most MaxImages trials of a batch produce an image that hashes.
MaxImages == 3
\* --max_near_distance is drawn from 0..MaxNearDistance.
MaxNearDistance == 1
\* hamming_distance is called on tokens of 0..MaxTokenLen characters.
MaxTokenLen == 2
\* extract_parameter_seeds is called on digests with up to MaxEdits bytes
\* changed.
MaxEdits == 1
\* At most MaxRowErrors rows of a correlation report fail for a reason other
\* than a sequence without variance.
MaxRowErrors == 1
\* The script fixes NUM_STRINGS = 10000; the model runs its loop over
\* MaxStrings strings, a count for which, as for 10000, NUM_STRINGS // 10 is
\* not 0.
MaxStrings == 10

\* param_complementarity_analyzer.py:133, the divisor of the progress report.
CorrProgressReports == 10
\* param_complementarity_analyzer.py:11-12
MIN_STR_LEN == 5
MAX_STR_LEN == 50

\* visual_collision_analyzer.py:132, the divisor of the progress report.
ProgressReports == 20
\* visual_collision_analyzer.py:210, the number of near pairs the summary
\* lists before '... (further pairs omitted)'.
PairLinesLimit == 20

\* generate_random_string: the 16-character alphanumeric strings of the model.
Strings == {"s1", "s2"}
\* str(imagehash.phash(img)), str(imagehash.dhash(img)): hex tokens of one
\* fixed length, at Hamming distances 1, 1 and 2.
Tokens == {<<"0", "0">>, <<"0", "f">>, <<"f", "f">>}
\* The images of the model, each by its (phash, dhash): three with pairwise
\* different phashes and dhashes, and one with the phash of the first and
\* the dhash of the third.
ImageHashes ==
    {h \in Tokens \X Tokens :
        h[1] = h[2] \/ h = <<<<"0", "0">>, <<"f", "f">>>>}

\* Python None where a hash token is expected (no token is empty).
None == <<>>
NoError == "none"
NotYet == [written |-> FALSE]
NoString == "-"

NumSamplesChoices == (0..MaxSmallSamples) \cup {ProgressReports}

VARIABLES
    num_samples,        \* args.num_samples
    max_near_distance,  \* args.max_near_distance
    pc,                 \* position of the script
    i,                  \* loop index of the batch loop
    input_string,       \* the trial's input string
    fileExists,         \* os.path.exists(unique_filename) for the trial's file
    phash_val,          \* the trial's hashes, None when hashing failed
    dhash_val,
    results,            \* dict input string -> {"phash", "dhash"}
    failed_strings,     \* list of failed input strings, kept as a bag
    phash_map,          \* defaultdict(list): phash -> list of input strings
    dhash_map,
    unique_phashes,
    unique_dhashes,
    analysis,           \* the values computed by lines 139-168
    report,             \* the summary file, NotYet until written
    error,              \* the uncaught exception that ended the script
    \* hamming_distance as a function
    token1,             \* the arguments
    token2,
    distance,           \* what the call did: a value or an exception
    \* extract_parameter_seeds as a function
    hash_bytes,         \* the argument
    edits,              \* number of bytes of hash_bytes changed so far
    seeds,              \* what the call did: a dict, None or an exception
    \* Correlation Harness
    NUM_STRINGS,        \* number of trials of the run
    param_data,         \* dict name -> {'orig': [...], 'rev': [...]}
    param_names,
    processed_count,
    output_lines,       \* the table rows of the report
    output_file,        \* OUTPUT_FILE, NotYet until written
    exit_status         \* exit status of the script, "running" until it ends

cvars == <<num_samples, max_near_distance, pc, i, input_string, fileExists,
           phash_val, dhash_val, results, failed_strings, phash_map, dhash_map,
           unique_phashes, unique_dhashes, analysis, report, error>>

hvars == <<token1, token2, distance>>
evars == <<hash_bytes, edits, seeds>>

kvars == <<NUM_STRINGS, param_data, param_names, processed_count,
           output_lines, output_file, exit_status>>

vars == <<cvars, hvars, evars, kvars>>

(***************************************************************************)
(* Helpers on Python values.                                               *)
(***************************************************************************)
EmptyDict == <<>>

\* d[k] = v
DictSet(d, k, v) == [x \in (DOMAIN d) \cup {k} |-> IF x = k THEN v ELSE d[x]]

\* defaultdict(list): d[k].append(v)
ListAppend(d, k, v) ==
    DictSet(d, k, IF k \in DOMAIN d THEN Append(d[k], v) ELSE <<v>>)

RECURSIVE SumOver(_, _)
SumOver(f, S) ==
    IF S = {} THEN 0
    ELSE LET x == CHOOSE y \in S : TRUE IN f[x] + SumOver(f, S \ {x})

Min(a, b) == IF a <= b THEN a ELSE b

\* a // b for a >= 0, b > 0
FloorDiv(a, b) == a \div b

\* hamming_distance without lines 32-33: zip stops at the shorter string.
HammingZip(s1, s2) ==
    [raised |-> NoError,
     value |-> Cardinality({k \in (DOMAIN s1) \cap (DOMAIN s2) : s1[k] # s2[k]})]

\* hamming_distance(s1, s2): ValueError on unequal lengths, else the number of
\* positions at which the two strings differ.
hamming_distance(s1, s2) ==
    IF Len(s1) # Len(s2)
    THEN [raised |-> "ValueError", value |-> 0]
    ELSE [raised |-> NoError,
          value |-> Cardinality({k \in 1..Len(s1) : s1[k] # s2[k]})]

\* calculate_hashes(image_path): (phash, dhash), or (None, None) on any
\* exception while opening or hashing the image.
calculate_hashes ==
    ImageHashes \cup {<<None, None>>}

(***************************************************************************)
(* Collision Harness: the batch loop.                                      *)
(***************************************************************************)
CInit ==
    /\ num_samples \in NumSamplesChoices
    /\ max_near_distance \in 0..MaxNearDistance
    /\ pc = "start"
    /\ i = 0
    /\ input_string = NoString
    /\ fileExists = FALSE
    /\ phash_val = None
    /\ dhash_val = None
    /\ results = EmptyDict
    /\ failed_strings = EmptyBag
    /\ phash_map = EmptyDict
    /\ dhash_map = EmptyDict
    /\ unique_phashes = {}
    /\ unique_dhashes = {}
    /\ analysis = NotYet
    /\ report = NotYet
    /\ error = NoError

\* The Collision Harness's own variables, at rest while another program runs.
cidle2 == <<num_samples, max_near_distance, input_string, fileExists,
            phash_val, dhash_val, results, failed_strings, phash_map,
            dhash_map, unique_phashes, unique_dhashes, analysis, report>>
cidle == <<cidle2, i, error>>

CIdle2 ==
    /\ num_samples = 0
    /\ max_near_distance = 0
    /\ input_string = NoString
    /\ fileExists = FALSE
    /\ phash_val = None
    /\ dhash_val = None
    /\ results = EmptyDict
    /\ failed_strings = EmptyBag
    /\ phash_map = EmptyDict
    /\ dhash_map = EmptyDict
    /\ unique_phashes = {}
    /\ unique_dhashes = {}
    /\ analysis = NotYet
    /\ report = NotYet

CIdle == CIdle2 /\ i = 0 /\ error = NoError

collections == <<results, failed_strings, phash_map, dhash_map,
                 unique_phashes, unique_dhashes>>
params == <<num_samples, max_near_distance>>

\* failed_strings.append(s)
FailedAppend(s) == failed_strings (+) SetToBag({s})

\* os.remove(unique_filename) inside try/except OSError, guarded by
\* os.path.exists: the file is gone unless the removal raised.
RemoveIfExists(exists, removed) == exists /\ ~removed

\* lines 58-67, outside any try: the three prints and the two os.makedirs.
\* os.makedirs raises an OSError (a path component that is a file, no
\* permission); print raises UnicodeEncodeError on an argument that standard
\* output cannot encode.  Either ends the script before the first trial.
Startup ==
    /\ pc = "start"
    /\ \E outcome \in {"ok", "OSError", "UnicodeEncodeError"} :
          IF outcome = "ok"
          THEN pc' = "loop" /\ UNCHANGED error
          ELSE pc' = "crashed" /\ error' = outcome
    /\ UNCHANGED <<params, i, input_string, fileExists, phash_val, dhash_val,
                   collections, analysis, report>>
    /\ UNCHANGED <<hvars, evars, kvars>>

\* `continue` and the end of the loop body: the next iteration begins; the
\* trial's locals are dead (lines 70-72 and 114 assign them before any read).
NextIteration ==
    /\ i' = i + 1
    /\ pc' = "loop"
    /\ input_string' = NoString
    /\ phash_val' = None
    /\ dhash_val' = None

\* line 69-72: the loop test, a fresh input string and a fresh file name.
StartTrial ==
    /\ pc = "loop"
    /\ i < num_samples
    /\ \E s \in Strings : input_string' = s
    /\ fileExists' = FALSE
    /\ pc' = "run"
    /\ UNCHANGED <<params, i, phash_val, dhash_val, collections, analysis,
                   report, error>>
    /\ UNCHANGED <<hvars, evars, kvars>>

\* line 69, range exhausted: on to the analysis.
EndLoop ==
    /\ pc = "loop"
    /\ i >= num_samples
    /\ pc' = "analyze"
    /\ UNCHANGED <<params, i, input_string, fileExists, phash_val, dhash_val,
                   collections, analysis, report, error>>
    /\ UNCHANGED <<hvars, evars, kvars>>

\* lines 75-111: subprocess.run with its three handlers, then the check that
\* the output file exists.  `exit` is what subprocess.run did, `created`
\* whether the renderer left a file at unique_filename, `removed` whether
\* os.remove succeeded.
RendererFailed(exit, created, removed) ==
    /\ exit \in {"CalledProcessError", "TimeoutExpired", "Exception"}
    /\ failed_strings' = FailedAppend(input_string)
    /\ fileExists' = IF exit = "Exception" THEN created
                     ELSE RemoveIfExists(created, removed)
    /\ NextIteration

RendererNoFile(exit, created) ==
    /\ exit = "ok"
    /\ ~created
    /\ failed_strings' = FailedAppend(input_string)
    /\ fileExists' = FALSE
    /\ NextIteration

RendererOk(exit, created) ==
    /\ exit = "ok"
    /\ created
    /\ fileExists' = TRUE
    /\ pc' = "hash"
    /\ UNCHANGED <<i, input_string, phash_val, dhash_val, failed_strings>>

RunRenderer ==
    /\ pc = "run"
    /\ \E exit \in {"ok", "CalledProcessError", "TimeoutExpired", "Exception"},
          created \in BOOLEAN, removed \in BOOLEAN :
          \/ RendererFailed(exit, created, removed)
          \/ RendererNoFile(exit, created)
          \/ RendererOk(exit, created)
    /\ UNCHANGED <<params, results, phash_map, dhash_map, unique_phashes,
                   unique_dhashes, analysis, report, error>>
    /\ UNCHANGED <<hvars, evars, kvars>>

\* Number of trials so far whose image hashed (entries of the hash maps).
Hashed == SumOver([h \in DOMAIN phash_map |-> Len(phash_map[h])],
                  DOMAIN phash_map)

\* lines 114-123: hash the image and record the trial.
RecordHashes(p, d) ==
    /\ phash_val' = p
    /\ dhash_val' = d
    /\ IF p # None /\ d # None
       THEN /\ results' = DictSet(results, input_string,
                                   [phash |-> p, dhash |-> d])
            /\ phash_map' = ListAppend(phash_map, p, input_string)
            /\ dhash_map' = ListAppend(dhash_map, d, input_string)
            /\ unique_phashes' = unique_phashes \cup {p}
            /\ unique_dhashes' = unique_dhashes \cup {d}
            /\ UNCHANGED failed_strings
       ELSE /\ failed_strings' = FailedAppend(input_string)
            /\ UNCHANGED <<results, phash_map, dhash_map, unique_phashes,
                           unique_dhashes>>

HashImage ==
    /\ pc = "hash"
    /\ \E h \in calculate_hashes :
          /\ h[1] # None => Hashed < MaxImages
          /\ RecordHashes(h[1], h[2])
    /\ pc' = "cleanup"
    /\ UNCHANGED <<params, i, input_string, fileExists, analysis, report,
                   error>>
    /\ UNCHANGED <<hvars, evars, kvars>>

\* lines 125-130: remove the temporary file.
Cleanup ==
    /\ pc = "cleanup"
    /\ \E removed \in BOOLEAN :
          fileExists' = RemoveIfExists(fileExists, removed)
    /\ pc' = "progress"
    /\ UNCHANGED <<params, i, input_string, phash_val, dhash_val, collections,
                   analysis, report, error>>
    /\ UNCHANGED <<hvars, evars, kvars>>

\* line 132: (i + 1) % (args.num_samples // 20) raises ZeroDivisionError when
\* the divisor is 0.
ProgressDivisor == FloorDiv(num_samples, ProgressReports)

Progress ==
    /\ pc = "progress"
    /\ IF ProgressDivisor = 0
       THEN /\ error' = "ZeroDivisionError"
            /\ pc' = "crashed"
            /\ UNCHANGED <<i, input_string, phash_val, dhash_val>>
       ELSE /\ NextIteration
            /\ UNCHANGED error
    /\ UNCHANGED <<params, fileExists, collections, analysis, report>>
    /\ UNCHANGED <<hvars, evars, kvars>>

(***************************************************************************)
(* Collision Harness: analysis (lines 139-168).                            *)
(***************************************************************************)
\* list(a_set): the elements in the set's iteration order, whichever it is.
ListsOf(S) ==
    {l \in [1..Cardinality(S) -> S] : {l[k] : k \in DOMAIN l} = S}

\* {h: strings for h, strings in m.items() if len(strings) > 1}
ExactCollisions(m) ==
    [h \in {x \in DOMAIN m : Len(m[x]) > 1} |-> m[h]]

\* sum(len(strings) for strings in groups.values()) - len(groups)
NumExactCollisions(groups) ==
    SumOver([h \in DOMAIN groups |-> Len(groups[h])], DOMAIN groups)
        - Cardinality(DOMAIN groups)

\* The nested loops of lines 149-154 (and 163-168) from the pair (a, b) on;
\* acc holds the count and the pairs so far, and the exception if
\* hamming_distance raised.
RECURSIVE NearScanFrom(_, _, _, _, _)
NearScanFrom(list, threshold, a, b, acc) ==
    IF a > Len(list) THEN acc
    ELSE IF b > Len(list)
    THEN NearScanFrom(list, threshold, a + 1, a + 2, acc)
    ELSE LET dist == hamming_distance(list[a], list[b]) IN
         IF dist.raised # NoError
         THEN [acc EXCEPT !.raised = dist.raised]
         ELSE NearScanFrom(list, threshold, a, b + 1,
                  IF dist.value <= threshold
                  THEN [acc EXCEPT
                           !.count = @ + 1,
                           !.pairs = Append(@, <<list[a], list[b], dist.value>>)]
                  ELSE acc)

\* NearScan with `dist < threshold` in place of `dist <= threshold`.
NearScanStrict(list, threshold) ==
    NearScanFrom(list, threshold - 1, 1, 2,
                 [count |-> 0, pairs |-> <<>>, raised |-> NoError])

NearScan(list, threshold) ==
    NearScanFrom(list, threshold, 1, 2,
                 [count |-> 0, pairs |-> <<>>, raised |-> NoError])

Analyze ==
    /\ pc = "analyze"
    /\ \E pl \in ListsOf(unique_phashes), dl \in ListsOf(unique_dhashes) :
          LET ps == NearScan(pl, max_near_distance)
              ds == NearScan(dl, max_near_distance)
              raised == IF ps.raised # NoError THEN ps.raised ELSE ds.raised
          IN  IF raised # NoError
              THEN /\ error' = raised
                   /\ pc' = "crashed"
                   /\ UNCHANGED analysis
              ELSE /\ analysis' =
                        [written |-> TRUE,
                         num_processed |-> Cardinality(DOMAIN results),
                         num_failed |-> BagCardinality(failed_strings),
                         exact_phash_collisions |-> ExactCollisions(phash_map),
                         num_exact_phash_collisions |->
                             NumExactCollisions(ExactCollisions(phash_map)),
                         num_phash_colliding_groups |->
                             Cardinality(DOMAIN ExactCollisions(phash_map)),
                         unique_phash_list |-> pl,
                         near_phash_collisions_count |-> ps.count,
                         near_phash_pairs |-> ps.pairs,
                         exact_dhash_collisions |-> ExactCollisions(dhash_map),
                         num_exact_dhash_collisions |->
                             NumExactCollisions(ExactCollisions(dhash_map)),
                         num_dhash_colliding_groups |->
                             Cardinality(DOMAIN ExactCollisions(dhash_map)),
                         unique_dhash_list |-> dl,
                         near_dhash_collisions_count |-> ds.count,
                         near_dhash_pairs |-> ds.pairs]
                   /\ pc' = "summary"
                   /\ UNCHANGED error
    /\ UNCHANGED <<params, i, input_string, fileExists, phash_val, dhash_val,
                   collections, report>>
    /\ UNCHANGED <<hvars, evars, kvars>>

(***************************************************************************)
(* Collision Harness: the summary file (lines 171-216).  A rate is kept as *)
(* the fraction the code divides, before the factor 100.                   *)
(***************************************************************************)
Fraction(n, d) == [num |-> n, den |-> d]
Zero == Fraction(0, 1)

\* (count / num_processed * 100) if num_processed > 0 else 0
ExactRate(count, num_processed) ==
    IF num_processed > 0 THEN Fraction(count, num_processed) ELSE Zero

\* (count / (u * (u - 1) / 2) * 100) if u > 1 else 0
NearPairRate(count, u) ==
    IF u > 1 THEN Fraction(count, (u * (u - 1)) \div 2) ELSE Zero

\* near_phash_pairs[:20] of line 210
FirstPairs(pairs) == SubSeq(pairs, 1, Min(Len(pairs), PairLinesLimit))

\* What lines 173-216 write: the summary of the analysis.
SummaryText ==
    [written |-> TRUE,
     tested |-> num_samples,
     processed |-> analysis.num_processed,
     failed |-> analysis.num_failed,
     threshold |-> max_near_distance,
     unique_phashes |-> Cardinality(unique_phashes),
     phash_strings_in_exact |-> analysis.num_exact_phash_collisions,
     phash_groups |-> analysis.num_phash_colliding_groups,
     exact_phash_rate |->
         ExactRate(analysis.num_exact_phash_collisions,
                   analysis.num_processed),
     near_phash_count |-> analysis.near_phash_collisions_count,
     near_phash_pair_rate |->
         NearPairRate(analysis.near_phash_collisions_count,
                      Cardinality(unique_phashes)),
     unique_dhashes |-> Cardinality(unique_dhashes),
     dhash_strings_in_exact |-> analysis.num_exact_dhash_collisions,
     dhash_groups |-> analysis.num_dhash_colliding_groups,
     exact_dhash_rate |->
         ExactRate(analysis.num_exact_dhash_collisions,
                   analysis.num_processed),
     near_dhash_count |-> analysis.near_dhash_collisions_count,
     near_dhash_pair_rate |->
         NearPairRate(analysis.near_dhash_collisions_count,
                      Cardinality(unique_dhashes)),
     phash_group_lines |-> analysis.exact_phash_collisions,
     phash_pair_lines |-> FirstPairs(analysis.near_phash_pairs),
     pairs_omitted |-> Len(analysis.near_phash_pairs) > PairLinesLimit]

\* The file after open(args.summary_file, 'w') succeeded and a later write
\* raised: created or truncated, with part of the text at most.
Truncated == [written |-> FALSE, truncated |-> TRUE]

\* lines 171-216, outside any try.  The print of line 171 (UnicodeEncodeError
\* on a --summary_file standard output cannot encode) or open() (OSError)
\* raises before there is a file; a write raises after open() (OSError, or
\* UnicodeEncodeError at line 179 on a --go_executable the file's encoding
\* cannot encode) and leaves the truncated file.  Either ends the script.
WriteSummary ==
    /\ pc = "summary"
    /\ \E outcome \in {"written", "failed before open", "failed after open"},
          e \in {"OSError", "UnicodeEncodeError"} :
          IF outcome = "written"
          THEN /\ report' = SummaryText
               /\ pc' = "done"
               /\ UNCHANGED error
          ELSE /\ report' = IF outcome = "failed before open" THEN report
                            ELSE Truncated
               /\ pc' = "crashed"
               /\ error' = e
    /\ UNCHANGED <<params, i, input_string, fileExists, phash_val, dhash_val,
                   collections, analysis>>
    /\ UNCHANGED <<hvars, evars, kvars>>

CNext ==
    \/ Startup
    \/ StartTrial
    \/ EndLoop
    \/ RunRenderer
    \/ HashImage
    \/ Cleanup
    \/ Progress
    \/ Analyze
    \/ WriteSummary

(***************************************************************************)
(* hamming_distance as a function: called on every pair of tokens of up to *)
(* MaxTokenLen characters.                                                 *)
(***************************************************************************)
TokenChars == {"0", "a", "f"}
TokensUpTo(n) == UNION {[1..k -> TokenChars] : k \in 0..n}

NotCalled == [raised |-> "not called", value |-> 0]

HIdle == token1 = <<>> /\ token2 = <<>> /\ distance = NotCalled

HInit ==
    /\ pc = "args"
    /\ token1 \in TokensUpTo(MaxTokenLen)
    /\ token2 \in TokensUpTo(MaxTokenLen)
    /\ distance = NotCalled

HammingCall ==
    /\ pc = "args"
    /\ distance' = hamming_distance(token1, token2)
    /\ pc' = "called"
    /\ UNCHANGED <<token1, token2>>
    /\ UNCHANGED <<cidle, evars, kvars>>

HammingArgs ==
    /\ pc = "called"
    /\ token1' \in TokensUpTo(MaxTokenLen)
    /\ token2' \in TokensUpTo(MaxTokenLen)
    /\ distance' = NotCalled
    /\ pc' = "args"
    /\ UNCHANGED <<cidle, evars, kvars>>

(***************************************************************************)
(* extract_parameter_seeds (lines 32-93).  An unsigned integer wider than  *)
(* the integers of the checker is kept as its base-256 digits, most        *)
(* significant first and without leading zeros.  A seed, a double, is kept  *)
(* as the pair of doubles the code divides: float(x) and float(max), each  *)
(* an integer.  For the 8-byte field float(max) is 2^64 and the quotient   *)
(* is exact; for the narrower fields both operands are exact and distinct  *)
(* pairs give distinct quotients, so two seeds of one field are equal      *)
(* doubles exactly when their pairs are equal.                             *)
(***************************************************************************)
RECURSIVE StripZeros(_)
StripZeros(digits) ==
    IF digits # <<>> /\ Head(digits) = 0 THEN StripZeros(Tail(digits))
    ELSE digits

Reverse(seq) == [k \in 1..Len(seq) |-> seq[Len(seq) + 1 - k]]

\* b[lo:hi] of Python, 0 <= lo <= hi
Slice(b, lo, hi) == SubSeq(b, lo + 1, Min(hi, Len(b)))

\* struct.calcsize(fmt)
CalcSize(fmt) == CASE fmt = ">Q" -> 8 [] fmt = ">I" -> 4 [] fmt = ">H" -> 2

\* UnpackBig with the bytes read least significant first ('<' for '>').
UnpackLittle(fmt, b) ==
    IF Len(b) # CalcSize(fmt)
    THEN [raised |-> "struct.error", value |-> <<>>]
    ELSE [raised |-> NoError, value |-> StripZeros(Reverse(b))]

\* struct.unpack(fmt, b)[0] for the big-endian unsigned formats: struct.error
\* unless b has exactly the format's size.
Unpack(fmt, b) ==
    IF Len(b) # CalcSize(fmt)
    THEN [raised |-> "struct.error", value |-> <<>>]
    ELSE [raised |-> NoError, value |-> StripZeros(b)]

\* b[k] of Python for a bytes object: the byte, or IndexError.
ByteAt(b, k) ==
    IF k + 1 \in DOMAIN b
    THEN [raised |-> NoError, value |-> StripZeros(<<b[k + 1]>>)]
    ELSE [raised |-> "IndexError", value |-> <<>>]

\* 0xFF...FF of `size` bytes
MaxUint(size) == [k \in 1..size |-> 255]

\* Number of bits of a byte t > 0.
BitLen(t) == CHOOSE n \in 1..8 : 2^(n - 1) <= t /\ t < 2^n

\* digits + 1
RECURSIVE Inc(_)
Inc(digits) ==
    IF digits = <<>> THEN <<1>>
    ELSE LET front == SubSeq(digits, 1, Len(digits) - 1)
             last == digits[Len(digits)]
         IN  IF last = 255 THEN Append(Inc(front), 0)
             ELSE Append(front, last + 1)

\* float(x) for an unsigned integer x < 2^64: x itself when it has at most
\* 53 bits, else x rounded to 53 significant bits, ties to even.  The bits
\* dropped, at most 11, lie in the two lowest digits.
ToFloat(x) ==
    LET bits == IF x = <<>> THEN 0 ELSE 8 * (Len(x) - 1) + BitLen(x[1])
        drop == bits - 53
    IN  IF drop <= 0 THEN x
        ELSE LET low == x[Len(x) - 1] * 256 + x[Len(x)]
                 rest == low % 2^drop
                 half == 2^(drop - 1)
                 up == rest > half
                       \/ (rest = half /\ (low \div 2^drop) % 2 = 1)
                 rounded == low - rest + (IF up THEN 2^drop ELSE 0)
                 front == SubSeq(x, 1, Len(x) - 2)
             IN  IF rounded = 65536 THEN Inc(front) \o <<0, 0>>
                 ELSE front \o <<rounded \div 256, rounded % 256>>

\* float(x) / float(max)
Normalized(x, size) == [num |-> ToFloat(x), den |-> ToFloat(MaxUint(size))]

\* The fields the try block (lines 41-84) reads, in order.
ExtractFields(b) ==
    <<[name |-> "angleSeed",      read |-> Unpack(">Q", Slice(b, 0, 8)),   size |-> 8],
      [name |-> "warpFreqXSeed",  read |-> Unpack(">I", Slice(b, 8, 12)),  size |-> 4],
      [name |-> "warpAmpXSeed",   read |-> Unpack(">H", Slice(b, 12, 14)), size |-> 2],
      [name |-> "warpPhaseXSeed", read |-> Unpack(">H", Slice(b, 14, 16)), size |-> 2],
      [name |-> "warpFreqYSeed",  read |-> Unpack(">I", Slice(b, 16, 20)), size |-> 4],
      [name |-> "warpAmpYSeed",   read |-> Unpack(">H", Slice(b, 20, 22)), size |-> 2],
      [name |-> "warpPhaseYSeed", read |-> Unpack(">H", Slice(b, 22, 24)), size |-> 2],
      [name |-> "hillFreqSeed",   read |-> Unpack(">I", Slice(b, 24, 28)), size |-> 4],
      [name |-> "hillPhaseSeed",  read |-> Unpack(">H", Slice(b, 28, 30)), size |-> 2],
      [name |-> "orderIndexSeed", read |-> ByteAt(b, 30),                  size |-> 1],
      [name |-> "hillAmpSeed",    read |-> ByteAt(b, 31),                  size |-> 1]>>

\* What a call does: returns a dict, returns None, or raises.
Returned(d) == [status |-> "dict", value |-> d]
ReturnedNone == [status |-> "None", value |-> EmptyDict]
Raised(e) == [status |-> e, value |-> EmptyDict]
NoCall == [status |-> "not called", value |-> EmptyDict]

\* Lines 41-93: the try block and its two handlers.
ExtractBody(b) ==
    LET fields == ExtractFields(b)
        ks == DOMAIN fields
    IN  IF \E k \in ks : fields[k].read.raised # NoError
        THEN ReturnedNone
        ELSE Returned([n \in {fields[k].name : k \in ks} |->
                 LET f == fields[CHOOSE k \in ks : fields[k].name = n]
                 IN  Normalized(f.read.value, f.size)])

\* extract_parameter_seeds without lines 37-39.
ExtractUnchecked(b) == ExtractBody(b)

\* extract_parameter_seeds without line 80.
ExtractNoOrderIndex(b) ==
    IF Len(b) # 32 THEN Raised("ValueError")
    ELSE LET r == ExtractBody(b) IN
         IF r.status # "dict" THEN r
         ELSE Returned([n \in (DOMAIN r.value) \ {"orderIndexSeed"} |->
                           r.value[n]])

extract_parameter_seeds(b) ==
    IF Len(b) # 32 THEN Raised("ValueError") ELSE ExtractBody(b)

\* The digests the function is called on: DigestLengths bytes of 0x00 or of
\* 0xFF, with up to MaxEdits bytes replaced by one of ByteChoices.
DigestLengths == {31, 32, 33}
ByteChoices == {0, 1, 128, 255}

EIdle == hash_bytes = <<>> /\ edits = 0 /\ seeds = NoCall

EInit ==
    /\ pc = "args"
    /\ \E n \in DigestLengths, byte \in {0, 255} :
          hash_bytes = [k \in 1..n |-> byte]
    /\ edits = 0
    /\ seeds = NoCall

EditByte ==
    /\ edits < MaxEdits
    /\ \E k \in DOMAIN hash_bytes, byte \in ByteChoices :
          /\ byte # hash_bytes[k]
          /\ hash_bytes' = [hash_bytes EXCEPT ![k] = byte]
    /\ edits' = edits + 1
    /\ seeds' = NoCall
    /\ pc' = "args"
    /\ UNCHANGED <<cidle, hvars, kvars>>

ExtractCall ==
    /\ pc = "args"
    /\ seeds' = extract_parameter_seeds(hash_bytes)
    /\ pc' = "called"
    /\ UNCHANGED <<hash_bytes, edits>>
    /\ UNCHANGED <<cidle, hvars, kvars>>

(***************************************************************************)
(* Correlation Harness: the main analysis of                               *)
(* param_complementarity_analyzer.py (lines 97-189).                       *)
(***************************************************************************)

\* generate_random_string(MIN_STR_LEN, MAX_STR_LEN): the strings of the model,
\* two that are each other's reversal.
CorrStrings ==
    {s \in {<<"a", "a", "a", "a", "b">>, <<"b", "a", "a", "a", "a">>} :
        Len(s) >= MIN_STR_LEN /\ Len(s) <= MAX_STR_LEN}

\* s[::-1]
reverse_string(s) == Reverse(s)

\* hashlib.sha256(s.encode('utf-8', errors='ignore')).digest() for the
\* strings of the model.
Sha256(s) ==
    CASE s = <<"a", "a", "a", "a", "b">> ->
             <<94, 241, 177, 1, 106, 38, 15, 12,
               34, 156, 91, 36, 175, 232, 127, 226,
               74, 104, 180, 200, 15, 111, 137, 83,
               91, 135, 224, 202, 114, 160, 134, 35>>
      [] s = <<"b", "a", "a", "a", "a">> ->
             <<219, 231, 134, 185, 155, 71, 77, 247,
               95, 251, 110, 12, 39, 36, 213, 225,
               134, 145, 182, 2, 237, 250, 218, 7,
               233, 254, 157, 69, 20, 195, 212, 13>>

\* hash_orig, hash_rev: the digest of a string.
Digest(s) == Sha256(s)

\* list(seeds.keys()): the names in the order lines 45-84 insert them.
KeysInOrder(b) == [k \in DOMAIN ExtractFields(b) |-> ExtractFields(b)[k].name]

\* np.corrcoef(orig, rev)[0, 1] with NaN replaced by 0.0 (lines 161-166): NaN
\* when either sequence has no variance; the coefficient itself is not
\* computed.  numpy reports the 0/0 behind the NaN as a RuntimeWarning, which
\* is raised as an exception when warnings are errors (`strict`).
IsConstant(seq) == \A a, b \in DOMAIN seq : seq[a] = seq[b]
Correlation(orig, rev, strict) ==
    IF IsConstant(orig) \/ IsConstant(rev)
    THEN IF strict THEN "RuntimeWarning" ELSE "0.0"
    ELSE "pearson"

\* lines 153-175: the row of one name.  An exception of lines 155-170 is
\* caught at line 172 and the row reads 'Error calculating'.
Row(name, strict, failed) ==
    LET c == Correlation(param_data[name].orig, param_data[name].rev, strict)
    IN  [name |-> name,
         correlation |-> IF failed \/ c = "RuntimeWarning"
                         THEN "Error calculating" ELSE c]

KIdle ==
    /\ NUM_STRINGS = 0
    /\ param_data = EmptyDict
    /\ param_names = <<>>
    /\ processed_count = 0
    /\ output_lines = <<>>
    /\ output_file = NotYet
    /\ exit_status = "running"

KInit ==
    /\ NUM_STRINGS = MaxStrings
    /\ pc = "loop"
    /\ i = 0
    /\ error = NoError
    /\ param_data = EmptyDict
    /\ param_names = <<>>
    /\ processed_count = 0
    /\ output_lines = <<>>
    /\ output_file = NotYet
    /\ exit_status = "running"

\* An uncaught exception ends the script with a traceback and status 1.
Uncaught(e) ==
    /\ error' = e
    /\ pc' = "crashed"
    /\ exit_status' = "1"

\* lines 121-130: storage on the first successful extraction, then the append
\* of the trial's seeds.
Stored(seeds_orig, seeds_rev, names) ==
    [n \in {names[k] : k \in DOMAIN names} |->
        LET old == IF n \in DOMAIN param_data THEN param_data[n]
                   ELSE [orig |-> <<>>, rev |-> <<>>]
        IN  [orig |-> Append(old.orig, seeds_orig[n]),
             rev |-> Append(old.rev, seeds_rev[n])]]

\* lines 105-134: one iteration of the main loop.
CorrTrial ==
    /\ pc = "loop"
    /\ i < NUM_STRINGS
    /\ \E s_orig \in CorrStrings :
          LET s_rev == reverse_string(s_orig)
              hash_orig == Digest(s_orig)
              hash_rev == Digest(s_rev)
              seeds_orig == extract_parameter_seeds(hash_orig)
              seeds_rev == extract_parameter_seeds(hash_rev)
              names == IF param_data = EmptyDict THEN KeysInOrder(hash_orig)
                       ELSE param_names
          IN  IF seeds_orig.status \notin {"dict", "None"}
              THEN /\ Uncaught(seeds_orig.status)
                   /\ UNCHANGED <<i, param_data, param_names, processed_count>>
              ELSE IF seeds_rev.status \notin {"dict", "None"}
              THEN /\ Uncaught(seeds_rev.status)
                   /\ UNCHANGED <<i, param_data, param_names, processed_count>>
              ELSE IF seeds_orig.status = "None" \/ seeds_rev.status = "None"
              THEN /\ i' = i + 1
                   /\ UNCHANGED <<pc, error, exit_status, param_data,
                                  param_names, processed_count>>
              ELSE /\ param_names' = names
                   /\ param_data' = Stored(seeds_orig.value, seeds_rev.value,
                                           names)
                   /\ processed_count' = processed_count + 1
                   /\ IF FloorDiv(NUM_STRINGS, CorrProgressReports) = 0
                      THEN /\ Uncaught("ZeroDivisionError")
                           /\ UNCHANGED i
                      ELSE /\ i' = i + 1
                           /\ UNCHANGED <<pc, error, exit_status>>
    /\ UNCHANGED <<NUM_STRINGS, output_lines, output_file>>
    /\ UNCHANGED <<cidle2, hvars, evars>>

\* lines 136-138: exit() when nothing was processed, which ends the script
\* with status 0.
CorrEndLoop ==
    /\ pc = "loop"
    /\ i >= NUM_STRINGS
    /\ IF processed_count = 0
       THEN pc' = "exited" /\ exit_status' = "0"
       ELSE pc' = "correlate" /\ UNCHANGED exit_status
    /\ UNCHANGED <<NUM_STRINGS, i, error, param_data, param_names,
                   processed_count, output_lines, output_file>>
    /\ UNCHANGED <<cidle2, hvars, evars>>

\* lines 143-177: one row per name of param_names.  `strict`: warnings are
\* errors in this run; `failing`: the names whose row raised another
\* exception (a MemoryError).
Correlate ==
    /\ pc = "correlate"
    /\ \E strict \in BOOLEAN,
          failing \in {S \in SUBSET {param_names[k] : k \in DOMAIN param_names} :
                          Cardinality(S) <= MaxRowErrors} :
          output_lines' =
              [k \in DOMAIN param_names |->
                  Row(param_names[k], strict, param_names[k] \in failing)]
    /\ pc' = "save"
    /\ UNCHANGED <<NUM_STRINGS, i, error, param_data, param_names,
                   processed_count, output_file, exit_status>>
    /\ UNCHANGED <<cidle2, hvars, evars>>

\* OUTPUT_FILE after open(OUTPUT_FILE, 'w') succeeded: the first `rows` rows
\* of the table, `cut` when the text ends before the end of the header or
\* inside the next row.  The writes are buffered, so an error after open()
\* leaves any prefix of the text.
FileWith(rows, cut) ==
    [written |-> TRUE,
     lines |-> SubSeq(output_lines, 1, rows),
     cut |-> cut]

\* lines 180-189: write OUTPUT_FILE; an IOError of open() or of a write is
\* reported and the script ends normally.
SaveResults ==
    /\ pc = "save"
    /\ \E opened \in BOOLEAN, rows \in 0..Len(output_lines), cut \in BOOLEAN :
          /\ cut => rows < Len(output_lines)
          /\ output_file' = IF opened THEN FileWith(rows, cut) ELSE output_file
    /\ pc' = "done"
    /\ exit_status' = "0"
    /\ UNCHANGED <<NUM_STRINGS, i, error, param_data, param_names,
                   processed_count, output_lines>>
    /\ UNCHANGED <<cidle2, hvars, evars>>

(***************************************************************************)
(* The specifications.                                                     *)
(***************************************************************************)
Init == CInit /\ HIdle /\ EIdle /\ KIdle
Next == CNext
Spec == Init /\ [][Next]_vars

HammingInit == HInit /\ CIdle /\ EIdle /\ KIdle
HammingNext == HammingCall \/ HammingArgs
SpecHamming == HammingInit /\ [][HammingNext]_vars

ExtractInit == EInit /\ CIdle /\ HIdle /\ KIdle
ExtractNext == EditByte \/ ExtractCall
SpecExtract == ExtractInit /\ [][ExtractNext]_vars

CorrelationInit == KInit /\ CIdle2 /\ HIdle /\ EIdle
CorrelationNext == CorrTrial \/ CorrEndLoop \/ Correlate \/ SaveResults
SpecCorrelation == CorrelationInit /\ [][CorrelationNext]_vars

(***************************************************************************)
(* Collision Harness: properties.                                          *)
(***************************************************************************)
\* C1: a per-sample failure (renderer exit, timeout, missing output file,
\* hashing error) is recorded in the failure list and never ends the batch:
\* the script does not stop on an uncaught exception in a trial that failed
\* (phash_val is None in a trial whose hashing failed).
C1_FailureNeverAbortsBatch ==
    pc = "crashed" /\ input_string # NoString => phash_val # None

\* C2: when a trial has been recorded and the loop moves on to the next trial,
\* the trial's temporary file no longer exists.
C2_TempFileGoneAtNextTrial ==
    pc = "loop" /\ i > 0 => ~fileExists

\* Sum of the sizes of the exact groups of a hash map: the lists with at
\* least two members.
StringsInGroups(m) ==
    LET big == {h \in DOMAIN m : Len(m[h]) >= 2}
    IN  SumOver([h \in big |-> Len(m[h])], big)

\* C3: for each hash variant the reported number of strings in exact
\* collisions is the sum of the sizes of the groups with two or more members,
\* and the exact-collision rate is that number over the number of successful
\* samples (0 when there is none).
C3_StringsInExactCollisions ==
    report.written =>
        /\ report.phash_strings_in_exact = StringsInGroups(phash_map)
        /\ report.dhash_strings_in_exact = StringsInGroups(dhash_map)
        /\ report.exact_phash_rate =
               IF report.processed > 0
               THEN Fraction(StringsInGroups(phash_map), report.processed)
               ELSE Zero
        /\ report.exact_dhash_rate =
               IF report.processed > 0
               THEN Fraction(StringsInGroups(dhash_map), report.processed)
               ELSE Zero

\* Number of positions at which two tokens of one length differ.
Differing(a, b) == Cardinality({k \in DOMAIN a : a[k] # b[k]})

\* The unordered pairs of distinct hash values of U within the threshold.
NearPairsOf(U) ==
    {pr \in SUBSET U :
        /\ Cardinality(pr) = 2
        /\ \E a, b \in pr : a # b /\ Differing(a, b) <= max_near_distance}

Choose2(u) == (u * (u - 1)) \div 2

NearScanExact(m, U, count, pairs) ==
    /\ U = DOMAIN m
    /\ {{pairs[k][1], pairs[k][2]} : k \in DOMAIN pairs} = NearPairsOf(U)
    /\ Len(pairs) = Cardinality(NearPairsOf(U))
    /\ \A k \in DOMAIN pairs :
          /\ pairs[k][1] # pairs[k][2]
          /\ pairs[k][3] = Differing(pairs[k][1], pairs[k][2])
    /\ count = Len(pairs)
    /\ count <= Choose2(Cardinality(U))

\* C4: for each hash variant the near-collision scan runs over the distinct
\* hash values observed and records exactly one pair, with its distance, for
\* every unordered pair of distinct values at Hamming distance <= the
\* threshold and none for any other pair; the count never exceeds C(u,2) and
\* the reported rate is count / C(u,2), 0 when u is 0 or 1.
C4_NearPairsExact ==
    /\ analysis.written =>
          /\ NearScanExact(phash_map, unique_phashes,
                           analysis.near_phash_collisions_count,
                           analysis.near_phash_pairs)
          /\ NearScanExact(dhash_map, unique_dhashes,
                           analysis.near_dhash_collisions_count,
                           analysis.near_dhash_pairs)
    /\ report.written =>
          /\ report.near_phash_count = Cardinality(NearPairsOf(unique_phashes))
          /\ report.near_dhash_count = Cardinality(NearPairsOf(unique_dhashes))
          /\ report.near_phash_pair_rate =
                 IF Cardinality(unique_phashes) \in {0, 1} THEN Zero
                 ELSE Fraction(report.near_phash_count,
                               Choose2(Cardinality(unique_phashes)))
          /\ report.near_dhash_pair_rate =
                 IF Cardinality(unique_dhashes) \in {0, 1} THEN Zero
                 ELSE Fraction(report.near_dhash_count,
                               Choose2(Cardinality(unique_dhashes)))

\* A summary of three distinct phashes and three distinct dhashes, each with
\* two pairs within the threshold and one pair beyond it.
C4_Witness ==
    /\ report.written
    /\ report.unique_phashes = 3
    /\ report.near_phash_count = 2
    /\ report.near_phash_pair_rate = Fraction(2, 3)
    /\ report.unique_dhashes = 3
    /\ report.near_dhash_count = 2

\* The members of a group, as a set.
Members(strings) == {strings[k] : k \in DOMAIN strings}

\* C11: every exact collision group of the report has two or more distinct
\* input strings: no string is counted twice in a group, so no group has
\* only one string repeated, also when a trial's input string repeats an
\* earlier trial's.
C11_GroupsOfDistinctStrings ==
    report.written =>
        \A h \in DOMAIN report.phash_group_lines :
            LET strings == report.phash_group_lines[h]
            IN  /\ Cardinality(Members(strings)) = Len(strings)
                /\ Cardinality(Members(strings)) >= 2

\* C12: in the report every trial is accounted for exactly once: the number
\* of strings processed successfully plus the number of strings failed is
\* the number of strings tested, whatever the trials' outcomes and input
\* strings.
C12_EveryTrialAccounted ==
    report.written => report.processed + report.failed = report.tested

\* C13: for every sample count >= 1 the progress report never ends the run:
\* the script never stops on the division by zero of its progress test
\* (pc and error are those of the program that runs).
C13_ProgressNeverEndsRun ==
    ~(pc = "crashed" /\ error = "ZeroDivisionError")

\* C14: for each hash variant the reported number of strings in exact
\* collisions is at most the number of successfully processed strings, the
\* denominator of the rate, so the exact-collision rate is between 0 and 1.
C14_ExactRateAtMostOne ==
    report.written =>
        /\ report.phash_strings_in_exact <= report.processed
        /\ report.dhash_strings_in_exact <= report.processed
        /\ report.exact_phash_rate.num >= 0
        /\ report.exact_phash_rate.num <= report.exact_phash_rate.den
        /\ report.exact_dhash_rate.num >= 0
        /\ report.exact_dhash_rate.num <= report.exact_dhash_rate.den

(***************************************************************************)
(* hamming_distance: properties (SpecHamming).                             *)
(***************************************************************************)
\* C10: hamming_distance is symmetric on tokens of equal length, is 0 exactly
\* when the two tokens are equal, and raises the length-mismatch error,
\* returning no distance, on tokens of unequal length.
C10_HammingLaws ==
    pc = "called" =>
        IF Len(token1) = Len(token2)
        THEN /\ distance.raised = NoError
             /\ hamming_distance(token2, token1).raised = NoError
             /\ distance.value = hamming_distance(token2, token1).value
             /\ (distance.value = 0 <=> token1 = token2)
        ELSE distance.raised = "ValueError"

\* A call on two different tokens of the same length.
C10_Witness ==
    /\ pc = "called"
    /\ Len(token1) = MaxTokenLen
    /\ Len(token2) = MaxTokenLen
    /\ distance.value = 1

(***************************************************************************)
(* extract_parameter_seeds: properties (SpecExtract).                      *)
(***************************************************************************)
\* C5: on a digest that is not exactly 32 bytes long the extractor raises the
\* length error and returns nothing; on exactly 32 bytes it returns the
\* parameters.
C5_LengthValidation ==
    pc = "called" =>
        IF Len(hash_bytes) = 32
        THEN seeds.status = "dict"
        ELSE seeds.status = "ValueError" /\ seeds.value = EmptyDict

\* A call on a 33-byte digest.
C5_Witness ==
    /\ pc = "called"
    /\ Len(hash_bytes) = 33
    /\ seeds.status = "ValueError"

\* The byte-layout table of the specification: half-open byte ranges.
LayoutTable ==
    [angleSeed      |-> <<0, 8>>,
     warpFreqXSeed  |-> <<8, 12>>,
     warpAmpXSeed   |-> <<12, 14>>,
     warpPhaseXSeed |-> <<14, 16>>,
     warpFreqYSeed  |-> <<16, 20>>,
     warpAmpYSeed   |-> <<20, 22>>,
     warpPhaseYSeed |-> <<22, 24>>,
     hillFreqSeed   |-> <<24, 28>>,
     hillPhaseSeed  |-> <<28, 30>>,
     orderIndexSeed |-> <<30, 31>>,
     hillAmpSeed    |-> <<31, 32>>]

\* The bytes of a table row, as 1-based positions.
RangeOf(n) == (LayoutTable[n][1] + 1)..LayoutTable[n][2]

\* The big-endian unsigned integer in b's byte range of row n over the
\* maximum of that width, the division being that of doubles.
TableValue(b, n) ==
    [num |-> ToFloat(StripZeros([k \in 1..Cardinality(RangeOf(n)) |->
                                    b[LayoutTable[n][1] + k]])),
     den |-> ToFloat([k \in 1..Cardinality(RangeOf(n)) |-> 255])]

IsZero(v) == v.num = <<>>
IsOne(v) == v.num = v.den

\* C8: for a 32-byte digest each parameter is the big-endian unsigned integer
\* of exactly its byte range in the layout table over the maximum of that
\* width; it does not change with a byte outside its range; the all-0x00
\* digest gives 0 and the all-0xFF digest gives 1 for every parameter.
C8_LayoutTable ==
    seeds.status = "dict" =>
        /\ \A n \in DOMAIN LayoutTable :
              /\ n \in DOMAIN seeds.value
              /\ seeds.value[n] = TableValue(hash_bytes, n)
              /\ (\A k \in DOMAIN hash_bytes : hash_bytes[k] = 0)
                     => IsZero(seeds.value[n])
              /\ (\A k \in DOMAIN hash_bytes : hash_bytes[k] = 255)
                     => IsOne(seeds.value[n])
        /\ \A k \in DOMAIN hash_bytes, byte \in ByteChoices :
              LET other == extract_parameter_seeds(
                               [hash_bytes EXCEPT ![k] = byte])
              IN  \A n \in DOMAIN LayoutTable :
                      k \notin RangeOf(n) => other.value[n] = seeds.value[n]

\* A call on a digest with one byte changed, whose angleSeed is neither 0
\* nor 1.
C8_Witness ==
    /\ seeds.status = "dict"
    /\ edits = 1
    /\ ~IsZero(seeds.value["angleSeed"])
    /\ ~IsOne(seeds.value["angleSeed"])

\* C9 as stated: the returned ParameterSet has exactly 10 names.
C9_TenNames ==
    seeds.status = "dict" => Cardinality(DOMAIN seeds.value) = 10

\* C9, amended: for every 32-byte digest the returned ParameterSet has
\* exactly the 11 names of the layout table, the same set for every digest,
\* with no name missing or added.
C9_FixedVocabulary ==
    seeds.status = "dict" => DOMAIN seeds.value = DOMAIN LayoutTable

\* A call that returned a ParameterSet for a digest with one byte changed.
C9_Witness ==
    /\ seeds.status = "dict"
    /\ edits = 1
    /\ Cardinality(DOMAIN seeds.value) = 11
====
